---- MODULE Spec2Model ----
(***************************************************************************)
(* Model of bs-song-manager: the library scanner (generate_song_list), the *)
(* per-folder worker (Song::from_path), the identifier cache and the       *)
(* hand-rolled catalog exchange (get_id_by_hash), the canonical folder     *)
(* name, the action applier (apply_changes) and the pending-action map of  *)
(* ManagerApp.                                                             *)
(***************************************************************************)
EXTENDS Integers, Sequences, FiniteSets, TLC

\* ------------------------------------------------------------ constants
CONCURRENT_THREADS_MAX == 16
CONCURRENT_THREADS_MIN == 8
DEFAULT_ID == "00000"

\* ------------------------------------------------------------ bounds
\* Number of directories in the large root (more than the high-water mark).
NumBigDirs == 18
\* Number of entries in a small root.
MaxSmallEntries == 2
\* Number of scans of one root in one run.
MaxScans == 2

\* ------------------------------------------------------------ helpers
Min(a, b) == IF a < b THEN a ELSE b

\* ------------------------------------------------------------------------
\* The wire.  A response is a sequence of lexemes, each standing for the
\* bytes of one token of the HTTP/JSON text; "\r", "\n" and " " are single
\* bytes.  Content-Length counts in the same unit.
\* ------------------------------------------------------------------------
WS == {" ", "\r", "\n"}
Digits == {"0", "1", "2", "3", "4", "5", "6", "7", "8", "9"}
DigitVal(d) ==
    CASE d = "0" -> 0 [] d = "1" -> 1 [] d = "2" -> 2 [] d = "3" -> 3
      [] d = "4" -> 4 [] d = "5" -> 5 [] d = "6" -> 6 [] d = "7" -> 7
      [] d = "8" -> 8 [] d = "9" -> 9
\* JSON string literals that occur as values, and the object keys.
IdStrings == {"1a2b3", "2c4d5"}
KeyId == "\"id\""
KeyOther == "\"error\""

\* str::trim
RECURSIVE TrimStart(_)
TrimStart(s) ==
    IF s # <<>> /\ Head(s) \in WS THEN TrimStart(Tail(s)) ELSE s
RECURSIVE TrimEnd(_)
TrimEnd(s) ==
    IF s # <<>> /\ s[Len(s)] \in WS THEN TrimEnd(SubSeq(s, 1, Len(s) - 1)) ELSE s
Trim(s) == TrimEnd(TrimStart(s))

\* Position of the first occurrence of ": " in s at or after index from, 0 if none.
RECURSIVE FindSep(_, _)
FindSep(s, from) ==
    IF from + 1 > Len(s) THEN 0
    ELSE IF s[from] = ":" /\ s[from + 1] = " " THEN from
    ELSE FindSep(s, from + 1)

\* head.split(": ").nth(1): <<TRUE, piece>> or <<FALSE, <<>>>> for None.
SplitNth1(head) ==
    LET i == FindSep(head, 1) IN
    IF i = 0 THEN <<FALSE, <<>>>>
    ELSE LET rest == SubSeq(head, i + 2, Len(head))
             j == FindSep(rest, 1)
         IN <<TRUE, IF j = 0 THEN rest ELSE SubSeq(rest, 1, j - 1)>>

\* str::parse::<usize>: <<TRUE, n>> or <<FALSE, 0>>.
RECURSIVE DecimalValue(_)
DecimalValue(s) ==
    IF s = <<>> THEN 0
    ELSE 10 * DecimalValue(SubSeq(s, 1, Len(s) - 1)) + DigitVal(s[Len(s)])
ParseUsize(s) ==
    IF s # <<>> /\ \A i \in 1..Len(s) : s[i] \in Digits
    THEN <<TRUE, DecimalValue(s)>>
    ELSE <<FALSE, 0>>

\* head.starts_with("Content-Length:")
StartsWithContentLength(head) ==
    Len(head) >= 2 /\ head[1] = "Content-Length" /\ head[2] = ":"

\* serde_json::from_str followed by content["id"].as_str(), on the lexeme
\* language of the responses: "error" (not JSON), "noid" (JSON without a
\* string id) or the id.
NonWs(s) == SelectSeq(s, LAMBDA x : x \notin WS)
IsJsonNumber(s) ==
    /\ s # <<>>
    /\ \A i \in 1..Len(s) : s[i] \in Digits
    /\ (Len(s) > 1 => s[1] # "0")
IsJsonScalar(s) == (Len(s) = 1 /\ s[1] \in IdStrings) \/ IsJsonNumber(s)
JsonId(body) ==
    LET t == Trim(body)
        n == NonWs(t)
    IN IF IsJsonScalar(t) THEN "noid"
       ELSE IF n = <<"{", "}">> THEN "noid"
       ELSE IF /\ Len(n) = 5
               /\ n[1] = "{"
               /\ n[2] \in {KeyId, KeyOther}
               /\ n[3] = ":"
               /\ n[4] \in IdStrings \cup Digits
               /\ n[5] = "}"
            THEN IF n[2] = KeyId /\ n[4] \in IdStrings THEN n[4] ELSE "noid"
       ELSE "error"

\* ------------------------------------------------------------------------
\* The reader.  A network script says which steps of the exchange succeed,
\* what the server sends, and at which byte (err_at, 0 = never) a read of
\* the underlying stream fails; a sticky failure repeats on every later
\* read, a transient one does not.
\* A reader state is [pos, fired]: bytes consumed, and whether the failure
\* has happened.
\* ------------------------------------------------------------------------
\* First index > pos holding "\n", or Len(resp) + 1 (the read that meets
\* end of file).
RECURSIVE LineEnd(_, _)
LineEnd(resp, pos) ==
    IF pos >= Len(resp) THEN Len(resp) + 1
    ELSE IF resp[pos + 1] = "\n" THEN pos + 1
    ELSE LineEnd(resp, pos + 1)

ReadFails(net, rd, last) ==
    \/ rd.fired /\ net.sticky
    \/ ~rd.fired /\ net.err_at > rd.pos /\ net.err_at <= last

\* BufRead::read_until(b'\n'): [ok, buf, rd].
ReadUntil(net, rd) ==
    LET last == LineEnd(net.resp, rd.pos)
        stop == Min(last, Len(net.resp))
    IN IF ReadFails(net, rd, last)
       THEN [ok |-> FALSE, buf |-> <<>>,
             rd |-> [pos |-> IF rd.fired THEN rd.pos ELSE net.err_at - 1,
                     fired |-> TRUE]]
       ELSE [ok |-> TRUE, buf |-> SubSeq(net.resp, rd.pos + 1, stop),
             rd |-> [pos |-> stop, fired |-> rd.fired]]

\* Read::read_exact on a buffer of n bytes: [ok, buf, rd].
ReadExact(net, rd, n) ==
    IF n = 0 THEN [ok |-> TRUE, buf |-> <<>>, rd |-> rd]
    ELSE IF ReadFails(net, rd, Min(rd.pos + n, Len(net.resp) + 1))
              \/ rd.pos + n > Len(net.resp)
    THEN [ok |-> FALSE, buf |-> <<>>, rd |-> [pos |-> rd.pos, fired |-> TRUE]]
    ELSE [ok |-> TRUE, buf |-> SubSeq(net.resp, rd.pos + 1, rd.pos + n),
          rd |-> [pos |-> rd.pos + n, fired |-> rd.fired]]

\* ------------------------------------------------------------------------
\* get_id_by_hash.  The result records the id returned, whether the call
\* panicked instead of returning, the steps that failed (in order), whether
\* a Content-Length header was read, how many header lines were read,
\* whether the header loop ended at line 92, the value of bytes_to_read
\* at line 95 and the number of bytes read_exact delivered.
\* ------------------------------------------------------------------------
Returned(id, failed, cl_seen, lines) ==
    [panicked |-> FALSE, id |-> id, failed |-> failed, cl_seen |-> cl_seen,
     lines |-> lines, blank_seen |-> FALSE, bytes_to_read |-> 0, body_read |-> 0]

\* Lines 95-116: the body read, the JSON parse and the id extraction.
ReadBody(net, rd, bytes_to_read, failed, cl_seen, lines, blank) ==
    LET r == ReadExact(net, rd, bytes_to_read)
        Ret(id, f) ==
            [Returned(id, f, cl_seen, lines) EXCEPT
                !.blank_seen = blank,
                !.bytes_to_read = bytes_to_read,
                !.body_read = Len(r.buf)]
    IN
    IF ~r.ok THEN Ret(DEFAULT_ID, Append(failed, "body"))
    ELSE LET content == JsonId(r.buf) IN
         IF content = "error"
         THEN Ret(DEFAULT_ID, Append(failed, "json"))
         ELSE IF content = "noid"
         THEN Ret(DEFAULT_ID, Append(failed, "no_id"))
         ELSE Ret(content, failed)

\* Lines 67-94: the header loop.  A failed read of a header line breaks out
\* of the loop (line 71) and the body is read next.
RECURSIVE HeaderLoop(_, _, _, _, _, _)
HeaderLoop(net, rd, bytes_to_read, failed, cl_seen, lines) ==
    LET r == ReadUntil(net, rd) IN
    IF ~r.ok
    THEN ReadBody(net, r.rd, bytes_to_read, Append(failed, "head"), cl_seen, lines,
                  FALSE)
    ELSE LET head == r.buf
             isCL == StartsWithContentLength(head)
             piece == SplitNth1(head)
             size == ParseUsize(Trim(piece[2]))
         IN IF isCL /\ (~piece[1] \/ ~size[1])
            THEN Returned(DEFAULT_ID, Append(failed, "content_length"),
                          cl_seen, lines + 1)
            ELSE LET btr == IF isCL THEN size[2] ELSE bytes_to_read
                     seen == cl_seen \/ isCL
                 IN IF Trim(head) = <<>>
                    THEN ReadBody(net, r.rd, btr, failed, seen, lines + 1, TRUE)
                    ELSE HeaderLoop(net, r.rd, btr, failed, seen, lines + 1)

\* The catalogue: the id the server holds for the hash named in the request
\* line (lines 46-49), and the response with that id filled in.
CatalogId(hash) == IF hash = <<"sha1", "Zeta", "expert-bytes", "one-bytes">>
                   THEN "1a2b3" ELSE "2c4d5"
Answer(resp, hash) ==
    [i \in 1..Len(resp) |-> IF resp[i] = "$id" THEN CatalogId(hash) ELSE resp[i]]

Exchange(net) ==
    IF ~net.tls_new
    THEN [Returned(DEFAULT_ID, <<"tls_new">>, FALSE, 0) EXCEPT !.panicked = TRUE]
    ELSE IF ~net.connect THEN Returned(DEFAULT_ID, <<"connect">>, FALSE, 0)
    ELSE IF ~net.handshake THEN Returned(DEFAULT_ID, <<"handshake">>, FALSE, 0)
    ELSE IF ~net.write THEN Returned(DEFAULT_ID, <<"write">>, FALSE, 0)
    ELSE HeaderLoop(net, [pos |-> 0, fired |-> FALSE], 0, <<>>, FALSE, 0)

get_id_by_hash(hash, net) == Exchange([net EXCEPT !.resp = Answer(net.resp, hash)])

\* ------------------------------------------------------------------------
\* The network scripts the model draws from.
\* ------------------------------------------------------------------------
StatusLine == <<"HTTP/1.1 200 OK", "\r", "\n">>
ContentLength(d) == <<"Content-Length", ":", " ", d, "\r", "\n">>
Blank == <<"\r", "\n">>
IdBody(id) == <<"{", KeyId, ":", id, "}">>

Responses ==
    {   \* a well-formed answer, for each id
        StatusLine \o ContentLength("5") \o Blank \o IdBody("$id"),
        \* the body ends with a line break, counted by Content-Length
        StatusLine \o ContentLength("7") \o Blank \o IdBody("$id") \o <<"\r", "\n">>,
        \* no Content-Length header
        StatusLine \o Blank \o IdBody("$id"),
        \* Content-Length without the space, and with a non-number
        StatusLine \o <<"Content-Length", ":", "5", "\r", "\n">> \o Blank \o IdBody("$id"),
        StatusLine \o ContentLength("x") \o Blank \o IdBody("$id"),
        \* Content-Length longer and shorter than the body
        StatusLine \o ContentLength("9") \o Blank \o IdBody("$id"),
        StatusLine \o ContentLength("3") \o Blank \o IdBody("$id"),
        \* a body without id, with a non-string id, and not JSON
        StatusLine \o ContentLength("5") \o Blank \o <<"{", KeyOther, ":", "$id", "}">>,
        StatusLine \o ContentLength("5") \o Blank \o <<"{", KeyId, ":", "7", "}">>,
        StatusLine \o ContentLength("1") \o Blank \o <<"x">>,
        \* the connection closes at once, or inside the headers
        <<>>,
        StatusLine \o <<"Content-Length", ":", " ", "5">>
    }

NetBehaviours ==
    {[tls_new |-> FALSE, connect |-> TRUE, handshake |-> TRUE, write |-> TRUE,
      resp |-> <<>>, err_at |-> 0, sticky |-> FALSE],
     [tls_new |-> TRUE, connect |-> FALSE, handshake |-> TRUE, write |-> TRUE,
      resp |-> <<>>, err_at |-> 0, sticky |-> FALSE],
     [tls_new |-> TRUE, connect |-> TRUE, handshake |-> FALSE, write |-> TRUE,
      resp |-> <<>>, err_at |-> 0, sticky |-> FALSE],
     [tls_new |-> TRUE, connect |-> TRUE, handshake |-> TRUE, write |-> FALSE,
      resp |-> <<>>, err_at |-> 0, sticky |-> FALSE]}
    \cup
    UNION {{[tls_new |-> TRUE, connect |-> TRUE, handshake |-> TRUE, write |-> TRUE,
             resp |-> r, err_at |-> e, sticky |-> s]
              : e \in 0..(Len(r) + 1), s \in BOOLEAN} : r \in Responses}

\* ------------------------------------------------------------------------
\* info.dat as a JSON value.  A scalar is [t, s, n]: t is "str", "num"
\* (a non-negative integer), "other" (a float, a negative number, a bool,
\* an array...) or "null" (the key is absent).
\* ------------------------------------------------------------------------
Str(s) == [t |-> "str", s |-> s, n |-> 0]
Num(n) == [t |-> "num", s |-> "", n |-> n]
Other == [t |-> "other", s |-> "", n |-> 0]
Null == [t |-> "null", s |-> "", n |-> 0]

\* Value::as_str, Value::as_u64
IsStr(v) == v.t = "str"
IsU64(v) == v.t = "num" /\ v.n >= 0

KnownCharacteristics ==
    {"360Degree", "90Degree", "Standard", "NoArrows", "OneSaber", "Lawless",
     "Lightshow"}

\* DifficultyBeatmap::new: does the record decode?
DifficultyBeatmap_new(data) ==
    /\ IsStr(data.difficulty)
    /\ IsU64(data.difficultyRank)
    /\ IsStr(data.beatmapFilename)

\* DifficultyBeatmapSet::new: does the group decode?  maps.is_array says
\* whether _difficultyBeatmaps is an array.
DifficultyBeatmapSet_new(data) ==
    /\ IsStr(data.beatmapCharacteristicName)
    /\ data.beatmapCharacteristicName.s \in KnownCharacteristics
    /\ data.difficultyBeatmaps.is_array
    /\ \A i \in 1..Len(data.difficultyBeatmaps.items) :
          DifficultyBeatmap_new(data.difficultyBeatmaps.items[i])

\* hash_string: SHA-1 of the byte stream, taken as collision-free.
hash_string(data) == <<"sha1">> \o data

\* The beatmap files of one group, in declared order.
SetFiles(set) ==
    [i \in 1..Len(set.difficultyBeatmaps.items) |->
        set.difficultyBeatmaps.items[i].beatmapFilename.s]

\* The bytes of the beatmap files of the groups, outer order then inner.
\* (BeatmapBytes_LastGroupFirst: the faulty variant that walks the groups
\* from the last to the first.)
RECURSIVE BeatmapBytes_LastGroupFirst(_, _)
BeatmapBytes_LastGroupFirst(folder, sets) ==
    IF sets = <<>> THEN <<>>
    ELSE BeatmapBytes_LastGroupFirst(folder, Tail(sets))
            \o [i \in 1..Len(Head(sets).difficultyBeatmaps.items) |->
                   folder.files[Head(sets).difficultyBeatmaps.items[i].beatmapFilename.s]]
RECURSIVE BeatmapBytes(_, _)
BeatmapBytes(folder, sets) ==
    IF sets = <<>> THEN <<>>
    ELSE LET names == SetFiles(Head(sets)) IN
         [i \in 1..Len(names) |-> folder.files[names[i]]]
            \o BeatmapBytes(folder, Tail(sets))

\* Song::from_path up to the hash (lines 228-289): [ok, level_hash].
\* ok is FALSE where the function returns None before the cache is used.
ParseFolder(folder) ==
    LET none == [ok |-> FALSE, level_hash |-> <<>>] IN
    IF ~folder.listable THEN none
    ELSE IF folder.info # "text" THEN none
    ELSE IF ~folder.json_ok THEN none
    ELSE LET sets == folder.infodat.difficultyBeatmapSets IN
         IF ~sets.is_array THEN none
         ELSE IF \E i \in 1..Len(sets.items) :
                    \/ ~DifficultyBeatmapSet_new(sets.items[i])
                    \/ \E j \in 1..Len(SetFiles(sets.items[i])) :
                          SetFiles(sets.items[i])[j] \notin DOMAIN folder.files
         THEN none
         ELSE [ok |-> TRUE,
               level_hash |->
                   hash_string(<<folder.bytes>> \o BeatmapBytes(folder, sets.items))]

\* Song::from_path after the lookup (lines 306-319): the seven scalar
\* fields, each with `?`.
FieldsOk(infodat) ==
    /\ IsStr(infodat.songName)
    /\ IsStr(infodat.songSubName)
    /\ IsStr(infodat.songAuthorName)
    /\ IsStr(infodat.levelAuthorName)
    /\ IsU64(infodat.beatsPerMinute)
    /\ IsStr(infodat.songFilename)
    /\ IsStr(infodat.coverImageFilename)

MakeSong(path, folder, level_hash, level_id) ==
    [song_folder_path |-> path,
     song_name |-> folder.infodat.songName.s,
     song_sub_name |-> folder.infodat.songSubName.s,
     song_author_name |-> folder.infodat.songAuthorName.s,
     level_author_name |-> folder.infodat.levelAuthorName.s,
     beats_per_minute |-> folder.infodat.beatsPerMinute.n,
     song_filename |-> folder.infodat.songFilename.s,
     cover_image_filename |-> folder.infodat.coverImageFilename.s,
     n_sets |-> Len(folder.infodat.difficultyBeatmapSets.items),
     level_hash |-> level_hash,
     level_id |-> level_id]

\* ------------------------------------------------------------------------
\* The folders the model draws from.
\* ------------------------------------------------------------------------
Beatmap(file) ==
    [difficulty |-> Str("Expert"), difficultyRank |-> Num(7),
     beatmapFilename |-> Str(file)]
BeatmapSet(name, maps) ==
    [beatmapCharacteristicName |-> Str(name),
     difficultyBeatmaps |-> [is_array |-> TRUE, items |-> maps]]
TwoSets ==
    [is_array |-> TRUE,
     items |-> <<BeatmapSet("Standard", <<Beatmap("Expert.dat")>>),
                 BeatmapSet("OneSaber", <<Beatmap("One.dat")>>)>>]
NoSets == [is_array |-> FALSE, items |-> <<>>]

InfoDat(name) ==
    [songName |-> Str(name), songSubName |-> Str(""),
     songAuthorName |-> Str("artist"), levelAuthorName |-> Str("mapper"),
     beatsPerMinute |-> Num(120), songFilename |-> Str("song.egg"),
     coverImageFilename |-> Str("cover.jpg"),
     difficultyBeatmapSets |-> TwoSets]

\* A valid folder: its info.dat bytes are named after its song.
ValidFolder(name) ==
    [listable |-> TRUE, info |-> "text", json_ok |-> TRUE, bytes |-> name,
     infodat |-> InfoDat(name),
     files |-> [f \in {"Expert.dat", "One.dat"} |->
                  IF f = "Expert.dat" THEN "expert-bytes" ELSE "one-bytes"]]

Zeta == ValidFolder("Zeta")
Alpha == ValidFolder("alpha")
Beta == ValidFolder("Beta")
NoInfoDat == [ValidFolder("none") EXCEPT !.info = "absent"]
Unlistable == [ValidFolder("unlistable") EXCEPT !.listable = FALSE]
Unopenable == [ValidFolder("unopenable") EXCEPT !.info = "unopenable"]
NotUtf8 == [ValidFolder("not-utf8") EXCEPT !.info = "not-utf8"]
BadJson == [ValidFolder("bad-json") EXCEPT !.json_ok = FALSE]
MissingSets ==
    [ValidFolder("no-sets") EXCEPT !.infodat.difficultyBeatmapSets = NoSets]
UnknownCharacteristic ==
    [ValidFolder("unknown-characteristic") EXCEPT
        !.infodat.difficultyBeatmapSets.items[2].beatmapCharacteristicName =
            Str("Legacy")]
BeatmapWithoutRank ==
    [ValidFolder("no-rank") EXCEPT
        !.infodat.difficultyBeatmapSets.items[2].difficultyBeatmaps.items[1]
            .difficultyRank = Null]
BeatmapUnreadable ==
    [ValidFolder("beatmap-unreadable") EXCEPT
        !.files = [f \in {"Expert.dat"} |-> "expert-bytes"]]
\* The folder Zeta with the contents of its two beatmap files exchanged.
ZetaSwapped ==
    [Zeta EXCEPT !.files = [f \in {"Expert.dat", "One.dat"} |->
                               IF f = "Expert.dat" THEN "one-bytes" ELSE "expert-bytes"]]
MissingName == [ValidFolder("no-name") EXCEPT !.infodat.songName = Null]
MistypedTempo ==
    [ValidFolder("tempo-string") EXCEPT !.infodat.beatsPerMinute = Str("120")]

\* The folders by the name the root listing knows them under (their
\* info.dat bytes).
FolderNames ==
    {"Zeta", "alpha", "none", "unlistable", "unopenable", "not-utf8", "bad-json",
     "no-sets", "unknown-characteristic", "no-rank", "beatmap-unreadable",
     "no-name", "tempo-string", "Zeta-swapped", "Beta"}
FolderNamed(name) ==
    CASE name = "Zeta" -> Zeta
      [] name = "alpha" -> Alpha
      [] name = "none" -> NoInfoDat
      [] name = "unlistable" -> Unlistable
      [] name = "unopenable" -> Unopenable
      [] name = "not-utf8" -> NotUtf8
      [] name = "bad-json" -> BadJson
      [] name = "no-sets" -> MissingSets
      [] name = "unknown-characteristic" -> UnknownCharacteristic
      [] name = "no-rank" -> BeatmapWithoutRank
      [] name = "beatmap-unreadable" -> BeatmapUnreadable
      [] name = "no-name" -> MissingName
      [] name = "tempo-string" -> MistypedTempo
      [] name = "Zeta-swapped" -> ZetaSwapped
      [] name = "Beta" -> Beta

\* The hashes of the folders that parse.
Hashes ==
    {ParseFolder(FolderNamed(n)).level_hash :
        n \in {m \in FolderNames : ParseFolder(FolderNamed(m)).ok}}

\* What a call of get_id_by_hash can come to, for each hash, over all the
\* network scripts: whether it panicked, and the id it returned.
Outcome(r) == [panicked |-> r.panicked, id |-> r.id]
ResolverResults ==
    [h \in Hashes |-> {Outcome(get_id_by_hash(h, net)) : net \in NetBehaviours}]

\* ------------------------------------------------------------------------
\* The scanned root.  An entry of the root listing is a directory (with the
\* folder it holds), the cache's own file id.cache, another file, or an
\* entry whose read failed.  The path of an entry is its index in the
\* listing.
\* ------------------------------------------------------------------------
Dir(name) == [kind |-> "dir", folder |-> name]
CacheFileEntry == [kind |-> "id.cache", folder |-> "none"]
OtherFile == [kind |-> "file", folder |-> "none"]
EntryError == [kind |-> "error", folder |-> "none"]
Entries == {Dir(f) : f \in FolderNames} \cup {CacheFileEntry, OtherFile, EntryError}

SeqsUpTo(S, n) == UNION {[1..k -> S] : k \in 0..n}

\* A root whose listing fails, the small roots, and the large root: more
\* directories than the high-water mark.
\* (The unreadable root has a folder in it, which no listing shows.)
UnreadableRoot == [readable |-> FALSE, entries |-> <<Dir("Zeta")>>]
NoRoot == [readable |-> FALSE, entries |-> <<>>]
\* The entries that roots of several entries are made of: the folders that
\* parse.
CoreEntries == {Dir("Zeta"), Dir("alpha")}
\* A folder that parses beside one without info.dat.
EndToEndRoot == [readable |-> TRUE, entries |-> <<Dir("Zeta"), Dir("none")>>]
SmallRoots ==
    {EndToEndRoot} \cup
    {[readable |-> TRUE, entries |-> es] :
        es \in SeqsUpTo(Entries, 1) \cup SeqsUpTo(CoreEntries, MaxSmallEntries)}
\* Three songs whose names differ in case, pushed in any order.
SortRoot == [readable |-> TRUE, entries |-> <<Dir("Zeta"), Dir("alpha"), Dir("Beta")>>]
BigRoot == [readable |-> TRUE, entries |-> [i \in 1..NumBigDirs |-> Dir("none")]]

\* The large root is scanned once, a small root MaxScans times.
ScansOf(r) ==
    IF Len(r.entries) > MaxSmallEntries \/ r = SortRoot THEN 1 ELSE MaxScans
Roots == {UnreadableRoot, BigRoot, SortRoot} \cup SmallRoots

\* id.cache on disk: absent, present but not a JSON map, or a map.
NoFile == [exists |-> FALSE, valid |-> FALSE, map |-> <<>>]
CorruptFile == [exists |-> TRUE, valid |-> FALSE, map |-> <<>>]
MapFile(m) == [exists |-> TRUE, valid |-> TRUE, map |-> m]

\* String comparison is bytewise: the bytes of the names the model uses.
as_bytes(name) ==
    CASE name = "Zeta" -> <<90, 101, 116, 97>>
      [] name = "alpha" -> <<97, 108, 112, 104, 97>>
      [] name = "Beta" -> <<66, 101, 116, 97>>
      [] OTHER -> <<>>
RECURSIVE LexLessEq(_, _)
LexLessEq(a, b) ==
    IF a = <<>> THEN TRUE
    ELSE IF b = <<>> THEN FALSE
    ELSE IF Head(a) # Head(b) THEN Head(a) < Head(b)
    ELSE LexLessEq(Tail(a), Tail(b))
\* a.song_name.cmp(&b.song_name) is not Greater
\* (NameLessEq_IgnoringCase: the faulty variant that folds A-Z to a-z.)
NameLessEq_IgnoringCase(a, b) ==
    LET fold(w) == [i \in 1..Len(w) |-> IF w[i] \in 65..90 THEN w[i] + 32 ELSE w[i]] IN
    LexLessEq(fold(as_bytes(a.song_name)), fold(as_bytes(b.song_name)))
NameLessEq(a, b) == LexLessEq(as_bytes(a.song_name), as_bytes(b.song_name))

\* Vec::sort_by (stable): insertion of each element after its equals.
RECURSIVE InsertSorted(_, _)
InsertSorted(sorted, x) ==
    IF sorted = <<>> THEN <<x>>
    ELSE IF NameLessEq(Head(sorted), x)
    THEN <<Head(sorted)>> \o InsertSorted(Tail(sorted), x)
    ELSE <<x>> \o sorted
RECURSIVE SortByName(_)
SortByName(list) ==
    IF list = <<>> THEN <<>>
    ELSE InsertSorted(SortByName(SubSeq(list, 1, Len(list) - 1)), list[Len(list)])

\* ------------------------------------------------------------------------
\* State.
\* ------------------------------------------------------------------------
\* ------------------------------------------------------------------------
\* Song::get_canonical_name.  A string is the sequence of its characters;
\* a character outside ASCII is written by its code point.
\* ------------------------------------------------------------------------
chars(str) ==
    CASE str = "" -> <<>>
      [] str = "1a2b3" -> <<"1", "a", "2", "b", "3">>
      [] str = "2c4d5" -> <<"2", "c", "4", "d", "5">>
      [] str = "00000" -> <<"0", "0", "0", "0", "0">>
      [] str = "a/b" -> <<"a", "/", "b">>
      [] str = "Test: Song?" -> <<"T", "e", "s", "t", ":", " ", "S", "o", "n", "g", "?">>
      [] str = "a?:b" -> <<"a", "?", ":", "b">>
      [] str = "etude:AE in Unicode" -> <<"U+00E9", "t", "u", "d", "e", "U+FF1A", "U+00C6">>
      [] str = "plain" -> <<"p", "l", "a", "i", "n">>
      [] str = "~" -> <<"~">>
      [] str = "Au/Th" -> <<"A", "u", "/", "T", "h">>
      [] str = "m" -> <<"m">>
      [] str = "{|}" -> <<"{", "|", "}">>
      [] str = "songA" -> <<"s", "o", "n", "g", "A">>
      [] str = "B" -> <<"B">>
      [] str = "D" -> <<"D">>

\* deunicode: ASCII is kept, a character outside it becomes its ASCII
\* transliteration (e acute -> e, AE ligature -> AE, fullwidth colon -> :).
Transliterated(c) ==
    CASE c = "U+00E9" -> <<"e">>
      [] c = "U+00C6" -> <<"A", "E">>
      [] c = "U+FF1A" -> <<":">>
      [] OTHER -> <<c>>
RECURSIVE deunicode(_)
deunicode(w) ==
    IF w = <<>> THEN <<>> ELSE Transliterated(Head(w)) \o deunicode(Tail(w))

\* Line 357: the character class of the regex.
ForbiddenChars ==
    {"~", "#", "\"", "%", "&", "*", ":", "<", ">", "?", "/", "\\", "{", "|", "}"}

\* Lines 358-363: Regex::replace_all of [...]+ by "_", leftmost longest.
\* (ReplaceAll_EachChar: the faulty variant whose regex has no +.)
RECURSIVE ReplaceAll_EachChar(_)
ReplaceAll_EachChar(w) ==
    IF w = <<>> THEN <<>>
    ELSE (IF Head(w) \in ForbiddenChars THEN <<"_">> ELSE <<Head(w)>>)
            \o ReplaceAll_EachChar(Tail(w))
RECURSIVE SkipRun(_)
SkipRun(w) ==
    IF w # <<>> /\ Head(w) \in ForbiddenChars THEN SkipRun(Tail(w)) ELSE w
RECURSIVE ReplaceAll(_)
ReplaceAll(w) ==
    IF w = <<>> THEN <<>>
    ELSE IF Head(w) \in ForbiddenChars THEN <<"_">> \o ReplaceAll(SkipRun(Tail(w)))
    ELSE <<Head(w)>> \o ReplaceAll(Tail(w))

\* Line 360: format!("{} ({} - {})", level_id, name, author)
Format(id, name, author) ==
    id \o <<" ", "(">> \o name \o <<" ", "-", " ">> \o author \o <<")">>

get_canonical_name(song) ==
    ReplaceAll(Format(chars(song.level_id),
                      deunicode(chars(song.song_name)),
                      deunicode(chars(song.level_author_name))))

\* The songs get_canonical_name is tried on.
NameIds == {"1a2b3", "00000", "a/b"}
NameTitles == {"Test: Song?", "a?:b", "etude:AE in Unicode", "plain", "", "~"}
NameAuthors == {"Au/Th", "m", "{|}", ""}
NameSongs ==
    {[level_id |-> i, song_name |-> n, level_author_name |-> a] :
        i \in NameIds, n \in NameTitles, a \in NameAuthors}
NoNameSong == [level_id |-> "", song_name |-> "", level_author_name |-> ""]

VARIABLES
    root,                 \* the directory being scanned
    id_cache_file,        \* root/id.cache
    scan_no,              \* scans started so far
    spc,                  \* where generate_song_list stands
    task_list,            \* paths of the units of work, in listing order
    next_task,            \* index of the next task of the dispatch loop
    task_pending,         \* VecDeque of spawned, not yet joined threads
    wpc,                  \* where each unit of work stands
    level_id,             \* each worker's level_id, while it has one
    exchanges,            \* number of resolver calls of each worker, this scan
    cached_id,            \* the shared map hash -> id
    cache_lock,           \* the worker holding the map's lock, 0 if none
    cache_poisoned,       \* a worker panicked while holding the lock
    shared_song_list,     \* the shared Vec<Song>
    shared_invalid_path,  \* the shared HashSet<PathBuf>
    local_invalid_path,   \* generate_song_list's own invalid_path
    song_list,            \* ManagerApp.song_list: the last returned list
    invalid_path,         \* ManagerApp.invalid_path: the last returned set
    net_in,               \* a network script handed to get_id_by_hash
    res_out,              \* what get_id_by_hash made of it
    name_in,              \* a Song handed to get_canonical_name
    name_out,             \* what get_canonical_name made of it
    fs,                   \* the folders of the song directory: name -> content
    pending_changes,      \* ManagerApp.pending_changes: entries [song, action]
    current_song,         \* ManagerApp.current_song
    list_outdated,        \* ManagerApp.list_outdated
    apc,                  \* where apply_changes stands
    todo,                 \* the entries its loop has not yet visited
    visited,              \* what became of each visited entry, in order
    last_request          \* the last Delete/Rename click, while its entry stands

scanVars ==
    <<root, id_cache_file, scan_no, spc, task_list, next_task, task_pending, wpc,
      level_id, exchanges, cached_id, cache_lock, cache_poisoned,
      shared_song_list, shared_invalid_path, local_invalid_path, song_list,
      invalid_path>>
resolveVars == <<net_in, res_out>>
nameVars == <<name_in, name_out>>
manageVars ==
    <<fs, pending_changes, current_song, list_outdated, apc, todo, visited,
      last_request>>
otherVars == <<resolveVars, nameVars, manageVars>>
vars == <<scanVars, resolveVars, nameVars, manageVars>>

Paths == 1..Len(root.entries)
FolderAt(p) == FolderNamed(root.entries[p].folder)
HashOf(p) == ParseFolder(FolderAt(p)).level_hash

NoNet ==
    [tls_new |-> TRUE, connect |-> TRUE, handshake |-> TRUE, write |-> TRUE,
     resp |-> <<>>, err_at |-> 0, sticky |-> FALSE]
NoResult == Returned("", <<>>, FALSE, 0)

\* The variables of get_canonical_name and of the song management while
\* they are not in use; ManagerApp::default (app.rs:64-74).
IdleName == name_in = NoNameSong /\ name_out = <<>>
IdleManage ==
    /\ fs = <<>>
    /\ pending_changes = {}
    /\ current_song = <<>>
    /\ list_outdated = FALSE
    /\ apc = "idle"
    /\ todo = {}
    /\ visited = <<>>
    /\ last_request = <<>>

\* The state of generate_song_list's locals when no scan is running.
NoScan ==
    /\ spc' = "idle"
    /\ task_list' = <<>>
    /\ next_task' = 1
    /\ task_pending' = <<>>
    /\ wpc' = [p \in Paths |-> "none"]
    /\ level_id' = [p \in Paths |-> ""]
    /\ cached_id' = <<>>
    /\ cache_lock' = 0
    /\ cache_poisoned' = FALSE
    /\ shared_song_list' = <<>>
    /\ shared_invalid_path' = {}
    /\ local_invalid_path' = {}

Init ==
    /\ root \in Roots
    /\ id_cache_file = NoFile
    /\ scan_no = 0
    /\ spc = "idle"
    /\ task_list = <<>>
    /\ next_task = 1
    /\ task_pending = <<>>
    /\ wpc = [p \in Paths |-> "none"]
    /\ level_id = [p \in Paths |-> ""]
    /\ exchanges = [p \in Paths |-> 0]
    /\ cached_id = <<>>
    /\ cache_lock = 0
    /\ cache_poisoned = FALSE
    /\ shared_song_list = <<>>
    /\ shared_invalid_path = {}
    /\ local_invalid_path = {}
    /\ song_list = <<>>
    /\ invalid_path = {}
    /\ net_in = NoNet
    /\ res_out = NoResult
    /\ IdleName
    /\ IdleManage

\* ------------------------------------------------------------------------
\* generate_song_list.
\* ------------------------------------------------------------------------
\* Lines 386-400: the map loaded from id.cache, empty when the file is
\* missing or does not parse.
\* (LoadCache_NeverLoads: the faulty variant that ignores the file.)
LoadCache_NeverLoads(file) == <<>>
LoadCache(file) == IF file.exists /\ file.valid THEN file.map ELSE <<>>

\* Lines 402-437: the directories become tasks, in listing order; other
\* entries except id.cache are invalid; an entry that failed is skipped.
IndicesOf(entries) == [i \in 1..Len(entries) |-> i]
TaskPaths(entries) ==
    SelectSeq(IndicesOf(entries), LAMBDA i : entries[i].kind = "dir")
NonDirectories(entries) == {i \in 1..Len(entries) : entries[i].kind = "file"}

\* Line 441 and line 445.  (Admits_AtTheMark and KeepsDraining_OneJoin are
\* the faulty variants with <= at line 441 and a single join at line 445.)
Admits_AtTheMark(len) == len <= CONCURRENT_THREADS_MAX
KeepsDraining_OneJoin(len) == len >= CONCURRENT_THREADS_MAX
Admits(len) == len < CONCURRENT_THREADS_MAX
KeepsDraining(len) == len > CONCURRENT_THREADS_MIN

\* Lines 460-470: id.cache after the save.  File::create can fail (the
\* file is left as it was) and the write can fail after the file was
\* truncated.
SaveOutcomes == {"saved", "create_failed", "write_failed"}
\* (SaveCache_AsLoaded: the faulty variant that writes the map as the file
\* had it, without the inserts of the scan.)
SaveCache_AsLoaded(file, map, outcome) ==
    CASE outcome = "saved" -> MapFile(IF file.exists /\ file.valid THEN file.map ELSE <<>>)
      [] outcome = "create_failed" -> file
      [] outcome = "write_failed" -> CorruptFile
SaveCache(file, map, outcome) ==
    CASE outcome = "saved" -> MapFile(map)
      [] outcome = "create_failed" -> file
      [] outcome = "write_failed" -> CorruptFile

Finished(p) == wpc[p] \in {"done", "panicked"}

\* Lines 370-372: read_dir(song_path) gave Ok.
\* (ListingOk_Always: the faulty variant that goes on after Err.)
ListingOk_Always(r) == TRUE
ListingOk(r) == r.readable

\* Lines 367-377: the listing of the root fails.
ScanRootFails ==
    /\ spc = "idle"
    /\ scan_no < ScansOf(root)
    /\ ~ListingOk(root)
    /\ scan_no' = scan_no + 1
    /\ song_list' = <<>>
    /\ invalid_path' = {}
    /\ exchanges' = [p \in Paths |-> 0]
    /\ NoScan
    /\ UNCHANGED <<root, id_cache_file, otherVars>>

\* Lines 367-437: the listing succeeds, the cache is loaded and the tasks
\* are built.
ScanPrepare ==
    /\ spc = "idle"
    /\ scan_no < ScansOf(root)
    /\ ListingOk(root)
    /\ scan_no' = scan_no + 1
    /\ spc' = "dispatch"
    /\ cached_id' = LoadCache(id_cache_file)
    /\ task_list' = TaskPaths(root.entries)
    /\ local_invalid_path' = NonDirectories(root.entries)
    /\ next_task' = 1
    /\ exchanges' = [p \in Paths |-> 0]
    /\ UNCHANGED <<root, id_cache_file, task_pending, wpc, level_id, cache_lock,
                   cache_poisoned, shared_song_list, shared_invalid_path,
                   song_list, invalid_path, otherVars>>

\* Lines 440-443: the task is spawned.
Spawn ==
    /\ spc = "dispatch"
    /\ next_task <= Len(task_list)
    /\ Admits(Len(task_pending))
    /\ wpc' = [wpc EXCEPT ![task_list[next_task]] = "spawned"]
    /\ task_pending' = Append(task_pending, task_list[next_task])
    /\ next_task' = next_task + 1
    /\ UNCHANGED <<root, id_cache_file, scan_no, spc, task_list, level_id,
                   exchanges, cached_id, cache_lock, cache_poisoned,
                   shared_song_list, shared_invalid_path, local_invalid_path,
                   song_list, invalid_path, otherVars>>

\* Lines 444-448: the pool is full.  The iteration's task is moved out of
\* task_list and the else branch only joins: the task is never spawned.
DropTask ==
    /\ spc = "dispatch"
    /\ next_task <= Len(task_list)
    /\ ~Admits(Len(task_pending))
    /\ wpc' = [wpc EXCEPT ![task_list[next_task]] = "dropped"]
    /\ next_task' = next_task + 1
    /\ spc' = IF KeepsDraining(Len(task_pending)) THEN "drain" ELSE "dispatch"
    /\ UNCHANGED <<root, id_cache_file, scan_no, task_list, task_pending,
                   level_id, exchanges, cached_id, cache_lock, cache_poisoned,
                   shared_song_list, shared_invalid_path, local_invalid_path,
                   song_list, invalid_path, otherVars>>

\* Line 446: pop_front().unwrap().join().unwrap() waits for the oldest
\* thread and panics if that thread panicked.
DrainJoin ==
    /\ spc = "drain"
    /\ task_pending # <<>>
    /\ Finished(Head(task_pending))
    /\ task_pending' = Tail(task_pending)
    /\ spc' = IF wpc[Head(task_pending)] = "panicked" THEN "panicked"
              ELSE IF KeepsDraining(Len(task_pending) - 1) THEN "drain"
              ELSE "dispatch"
    /\ UNCHANGED <<root, id_cache_file, scan_no, task_list, next_task, wpc,
                   level_id, exchanges, cached_id, cache_lock, cache_poisoned,
                   shared_song_list, shared_invalid_path, local_invalid_path,
                   song_list, invalid_path, otherVars>>

\* Line 449-450: the dispatch loop is over.
EndDispatch ==
    /\ spc = "dispatch"
    /\ next_task > Len(task_list)
    /\ spc' = "join"
    /\ UNCHANGED <<root, id_cache_file, scan_no, task_list, next_task,
                   task_pending, wpc, level_id, exchanges, cached_id, cache_lock,
                   cache_poisoned, shared_song_list, shared_invalid_path,
                   local_invalid_path, song_list, invalid_path, otherVars>>

\* Lines 450-454: the remaining threads are joined in order.
FinalJoin ==
    /\ spc = "join"
    /\ task_pending # <<>>
    /\ Finished(Head(task_pending))
    /\ task_pending' = Tail(task_pending)
    /\ spc' = IF wpc[Head(task_pending)] = "panicked" THEN "panicked" ELSE "join"
    /\ UNCHANGED <<root, id_cache_file, scan_no, task_list, next_task, wpc,
                   level_id, exchanges, cached_id, cache_lock, cache_poisoned,
                   shared_song_list, shared_invalid_path, local_invalid_path,
                   song_list, invalid_path, otherVars>>

\* Lines 456-471: the results are collected, the list is sorted, the cache
\* is saved and the pair is returned to ManagerApp::update (app.rs:105).
\* cached_id.read().unwrap() panics on a poisoned lock once the file is
\* created.
Finish ==
    /\ spc = "join"
    /\ task_pending = <<>>
    /\ \E outcome \in SaveOutcomes :
          IF cache_poisoned /\ outcome # "create_failed"
          THEN /\ spc' = "panicked"
               /\ id_cache_file' = CorruptFile
               /\ UNCHANGED <<task_list, next_task, task_pending, wpc, level_id,
                              exchanges, cached_id, cache_lock, cache_poisoned,
                              shared_song_list, shared_invalid_path,
                              local_invalid_path, song_list, invalid_path>>
          ELSE /\ id_cache_file' = SaveCache(id_cache_file, cached_id, outcome)
               /\ song_list' = SortByName(shared_song_list)
               /\ invalid_path' = local_invalid_path \cup shared_invalid_path
               /\ exchanges' = [p \in Paths |-> 0]
               /\ NoScan
    /\ UNCHANGED <<root, scan_no, otherVars>>

\* ------------------------------------------------------------------------
\* The unit of work (lines 415-428) and Song::from_path.
\* ------------------------------------------------------------------------
\* (MapPut_Alone: the faulty variant that forgets the other entries.)
MapPut_Alone(map, k, v) == [x \in {k} |-> v]
MapPut(map, k, v) == [x \in (DOMAIN map) \cup {k} |-> IF x = k THEN v ELSE map[x]]

\* Line 291: id_cache.get(&level_hash)
\* (CacheHit_Never: the faulty variant that always misses.)
CacheHit_Never(map, hash) == FALSE
CacheHit(map, hash) == hash \in DOMAIN map

\* Lines 295-297: the map after a resolution under the lock.
\* (CacheAfterResolve_Always: the faulty variant without the test of line 295.)
CacheAfterResolve_Always(map, hash, id) == MapPut(map, hash, id)
\* (CacheAfterResolve_Never: the faulty variant without the insert.)
CacheAfterResolve_Never(map, hash, id) == map
CacheAfterResolve(map, hash, id) ==
    IF id # DEFAULT_ID THEN MapPut(map, hash, id) ELSE map

\* Lines 228-288 return None; lines 422-426 record the path.
WorkerReject(p) ==
    /\ wpc[p] = "spawned"
    /\ ~ParseFolder(FolderAt(p)).ok
    /\ shared_invalid_path' = shared_invalid_path \cup {p}
    /\ wpc' = [wpc EXCEPT ![p] = "done"]
    /\ UNCHANGED <<root, id_cache_file, scan_no, spc, task_list, next_task,
                   task_pending, level_id, exchanges, cached_id, cache_lock,
                   cache_poisoned, shared_song_list, local_invalid_path,
                   song_list, invalid_path, otherVars>>

\* Lines 289-292, 301-302: the folder parsed; id_cache.write() is taken.
\* A hit releases the lock at once; a miss keeps the guard while
\* get_id_by_hash runs, and so does the Err arm of a poisoned lock, whose
\* PoisonError owns the guard.
\* Lines 293-299: the None arm runs under the guard of line 290.
\* (GuardDuringExchange_Released: the faulty variant that gives the lock
\* back before the exchange.)
GuardDuringExchange_Released(p) == 0
GuardDuringExchange(p) == p

WorkerLookup(p) ==
    /\ wpc[p] = "spawned"
    /\ ParseFolder(FolderAt(p)).ok
    /\ cache_lock = 0
    /\ IF cache_poisoned
       THEN /\ wpc' = [wpc EXCEPT ![p] = "fallback"]
            /\ cache_lock' = p
            /\ UNCHANGED level_id
       ELSE IF CacheHit(cached_id, HashOf(p))
       THEN /\ wpc' = [wpc EXCEPT ![p] = "built"]
            /\ level_id' = [level_id EXCEPT ![p] = cached_id[HashOf(p)]]
            /\ UNCHANGED cache_lock
       ELSE /\ wpc' = [wpc EXCEPT ![p] = "resolving"]
            /\ cache_lock' = GuardDuringExchange(p)
            /\ UNCHANGED level_id
    /\ UNCHANGED <<root, id_cache_file, scan_no, spc, task_list, next_task,
                   task_pending, exchanges, cached_id, cache_poisoned,
                   shared_song_list, shared_invalid_path, local_invalid_path,
                   song_list, invalid_path, otherVars>>

\* Line 305: the guard of id_cache.write() is dropped where the let
\* statement ends, before the Song is built.
\* (GuardAfterMatch_Kept: the faulty variant whose guard outlives it.)
GuardAfterMatch_Kept(p) == p
GuardAfterMatch(p) == 0

\* Lines 294-299, 303: get_id_by_hash returns or panics
\* (TlsConnector::new().unwrap(), line 35).  A panic unwinds through the
\* guard: the lock is released and poisoned.
WorkerResolve(p) ==
    /\ wpc[p] \in {"resolving", "fallback"}
    /\ \E r \in ResolverResults[HashOf(p)] :
          /\ exchanges' = [exchanges EXCEPT ![p] = @ + 1]
          /\ cache_lock' = GuardAfterMatch(p)
          /\ IF r.panicked
             THEN /\ wpc' = [wpc EXCEPT ![p] = "panicked"]
                  /\ cache_poisoned' = TRUE
                  /\ UNCHANGED <<level_id, cached_id>>
             ELSE /\ wpc' = [wpc EXCEPT ![p] = "built"]
                  /\ level_id' = [level_id EXCEPT ![p] = r.id]
                  /\ cached_id' =
                        IF wpc[p] = "resolving"
                        THEN CacheAfterResolve(cached_id, HashOf(p), r.id)
                        ELSE cached_id
                  /\ UNCHANGED cache_poisoned
    /\ UNCHANGED <<root, id_cache_file, scan_no, spc, task_list, next_task,
                   task_pending, shared_song_list, shared_invalid_path,
                   local_invalid_path, song_list, invalid_path, otherVars>>

\* Lines 306-319 and 420-427: the Song is built, or a scalar field is
\* missing and from_path returns None; the result is recorded.
WorkerFinish(p) ==
    /\ wpc[p] = "built"
    /\ IF FieldsOk(FolderAt(p).infodat)
       THEN /\ shared_song_list' =
                  Append(shared_song_list,
                         MakeSong(p, FolderAt(p), HashOf(p), level_id[p]))
            /\ UNCHANGED shared_invalid_path
       ELSE /\ shared_invalid_path' = shared_invalid_path \cup {p}
            /\ UNCHANGED shared_song_list
    /\ wpc' = [wpc EXCEPT ![p] = "done"]
    /\ level_id' = [level_id EXCEPT ![p] = ""]
    /\ UNCHANGED <<root, id_cache_file, scan_no, spc, task_list, next_task,
                   task_pending, exchanges, cached_id, cache_lock,
                   cache_poisoned, local_invalid_path, song_list, invalid_path,
                   otherVars>>

Worker(p) ==
    \/ WorkerReject(p)
    \/ WorkerLookup(p)
    \/ WorkerResolve(p)
    \/ WorkerFinish(p)

\* The threads run while the process lives: a panic of generate_song_list
\* on the UI thread ends it.
Next ==
    \/ ScanRootFails
    \/ ScanPrepare
    \/ Spawn
    \/ DropTask
    \/ DrainJoin
    \/ EndDispatch
    \/ FinalJoin
    \/ Finish
    \/ \E p \in Paths : spc # "panicked" /\ Worker(p)

Spec == Init /\ [][Next]_vars

\* The scanner and the spawned workers are threads of the operating
\* system: as long as one of them can take a step, one does.
\* The roots whose scans are followed to their end: the one that cannot be
\* listed, the one that fills the pool, three folders that contend for the
\* cache lock, and a folder that parses beside one that does not.
FairRoots == {UnreadableRoot, BigRoot, SortRoot, EndToEndRoot}
InitFair == Init /\ root \in FairRoots
SpecFair == InitFair /\ [][Next]_vars /\ WF_vars(Next)

\* ------------------------------------------------------------------------
\* get_id_by_hash on its own: one call on each network script.
\* ------------------------------------------------------------------------
InitResolve ==
    /\ root = NoRoot
    /\ id_cache_file = NoFile
    /\ scan_no = 0
    /\ spc = "idle"
    /\ task_list = <<>>
    /\ next_task = 1
    /\ task_pending = <<>>
    /\ wpc = <<>>
    /\ level_id = <<>>
    /\ exchanges = <<>>
    /\ cached_id = <<>>
    /\ cache_lock = 0
    /\ cache_poisoned = FALSE
    /\ shared_song_list = <<>>
    /\ shared_invalid_path = {}
    /\ local_invalid_path = {}
    /\ song_list = <<>>
    /\ invalid_path = {}
    /\ net_in \in NetBehaviours
    /\ res_out = NoResult
    /\ IdleName
    /\ IdleManage

Resolve ==
    /\ res_out = NoResult
    /\ \E hash \in Hashes : res_out' = get_id_by_hash(hash, net_in)
    /\ UNCHANGED <<scanVars, net_in, nameVars, manageVars>>

NextResolve == Resolve

SpecResolve == InitResolve /\ [][NextResolve]_vars

\* ------------------------------------------------------------------------
\* get_canonical_name on its own.
\* ------------------------------------------------------------------------
\* No scan is running and none has run.
IdleScan ==
    /\ root = NoRoot
    /\ id_cache_file = NoFile
    /\ scan_no = 0
    /\ spc = "idle"
    /\ task_list = <<>>
    /\ next_task = 1
    /\ task_pending = <<>>
    /\ wpc = <<>>
    /\ level_id = <<>>
    /\ exchanges = <<>>
    /\ cached_id = <<>>
    /\ cache_lock = 0
    /\ cache_poisoned = FALSE
    /\ shared_song_list = <<>>
    /\ shared_invalid_path = {}
    /\ local_invalid_path = {}
    /\ invalid_path = {}

InitName ==
    /\ IdleScan
    /\ song_list = <<>>
    /\ net_in = NoNet
    /\ res_out = NoResult
    /\ IdleManage
    /\ name_in \in NameSongs
    /\ name_out = <<>>

CanonicalName ==
    /\ name_out = <<>>
    /\ name_out' = get_canonical_name(name_in)
    /\ UNCHANGED <<scanVars, resolveVars, manageVars, name_in>>

NextName == CanonicalName

SpecName == InitName /\ [][NextName]_vars

\* ------------------------------------------------------------------------
\* apply_changes (lines 489-520) on the folders of one song directory.
\* A path is the name of the folder inside the directory, the sequence of
\* its characters; the empty path has no parent.
\* ------------------------------------------------------------------------
\* What a folder holds: the fields of its info.dat, the id the catalog has
\* for it, and which copy of the song it is.
Content(name, author, catalog, copy) ==
    [song_name |-> name, level_author_name |-> author, catalog |-> catalog,
     copy |-> copy]
ManagedSong(path, content, id) ==
    [song_folder_path |-> path, song_name |-> content.song_name,
     level_author_name |-> content.level_author_name, level_id |-> id]

\* Two copies of one song, the second in the folder that has the canonical
\* name already, and another song.
TestSong == Content("Test: Song?", "Au/Th", "1a2b3", 1)
TestSongCopy == Content("Test: Song?", "Au/Th", "1a2b3", 2)
OtherSong == Content("B", "m", "2c4d5", 1)
CanonicalOfTestSong == get_canonical_name(ManagedSong(<<>>, TestSong, "1a2b3"))
ManagedFs ==
    (chars("songA") :> TestSong) @@ (CanonicalOfTestSong :> TestSongCopy)
        @@ (chars("B") :> OtherSong)
\* A Song whose folder path is empty.
ParentlessSong == ManagedSong(<<>>, OtherSong, "2c4d5")

\* Lines 212-216: PartialEq for Song.
\* (SongEq_AllFields: the faulty variant that compares every field.)
SongEq_AllFields(a, b) == a = b
SongEq(a, b) == a.song_folder_path = b.song_folder_path

Actions == {"Delete", "Rename"}
Entry(song, action) == [song |-> song, action |-> action]
\* HashMap::insert: an equal key keeps the old key and takes the new value.
MapInsert(map, song, action) ==
    LET same == {e \in map : SongEq(e.song, song)} IN
    IF same = {} THEN map \cup {Entry(song, action)}
    ELSE (map \ same) \cup {Entry(e.song, action) : e \in same}
\* HashMap::remove
MapRemove(map, song) == {e \in map : ~SongEq(e.song, song)}

\* Line 497: Path::parent
HasParent(path) == path # <<>>

\* Line 494: std::fs::remove_dir_all.  env_ok is FALSE when the system
\* refuses (permissions, I/O).
\* (RemoveDirAll_WithSiblings: the faulty variant that removes the parent
\* directory's other folders too.)
RemoveDirAll_WithSiblings(f, path, env_ok) ==
    IF path \in DOMAIN f /\ env_ok
    THEN [ok |-> TRUE, fs |-> <<>>]
    ELSE [ok |-> FALSE, fs |-> f]
RemoveDirAll(f, path, env_ok) ==
    IF path \in DOMAIN f /\ env_ok
    THEN [ok |-> TRUE, fs |-> [n \in DOMAIN f \ {path} |-> f[n]]]
    ELSE [ok |-> FALSE, fs |-> f]

\* Line 505: std::fs::rename of a directory that is not empty: onto itself
\* it does nothing and succeeds, onto another existing folder it fails.
\* (RenameDir_KeepsSource: the faulty variant that copies.)
RenameDir_KeepsSource(f, src, dst, env_ok) ==
    IF src \notin DOMAIN f \/ ~env_ok THEN [ok |-> FALSE, fs |-> f]
    ELSE IF dst \in DOMAIN f THEN [ok |-> dst = src, fs |-> f]
    ELSE [ok |-> TRUE,
          fs |-> [n \in DOMAIN f \cup {dst} |-> IF n = dst THEN f[src] ELSE f[n]]]
RenameDir(f, src, dst, env_ok) ==
    IF src \notin DOMAIN f \/ ~env_ok THEN [ok |-> FALSE, fs |-> f]
    ELSE IF dst = src THEN [ok |-> TRUE, fs |-> f]
    ELSE IF dst \in DOMAIN f THEN [ok |-> FALSE, fs |-> f]
    ELSE [ok |-> TRUE,
          fs |-> [n \in (DOMAIN f \ {src}) \cup {dst} |->
                    IF n = dst THEN f[src] ELSE f[n]]]

\* Lines 491-518: one entry of the batch: [outcome, fs].
ApplyOne(f, e, env_ok) ==
    IF e.action = "Delete"
    THEN LET r == RemoveDirAll(f, e.song.song_folder_path, env_ok) IN
         [outcome |-> IF r.ok THEN "ok" ELSE "failed", fs |-> r.fs]
    ELSE IF HasParent(e.song.song_folder_path)
    THEN LET r == RenameDir(f, e.song.song_folder_path,
                            get_canonical_name(e.song), env_ok) IN
         [outcome |-> IF r.ok THEN "ok" ELSE "failed", fs |-> r.fs]
    ELSE [outcome |-> "skipped", fs |-> f]

\* Lines 490, 508, 511-518: the loop goes on to the next entry whatever
\* became of this one.
\* (Remaining_StopAtFailure: the faulty variant that leaves the loop.)
Remaining_StopAtFailure(entries, e, outcome) ==
    IF outcome = "ok" THEN entries \ {e} ELSE {}
Remaining(entries, e, outcome) == entries \ {e}

\* One iteration of the loop, in the order the HashMap gives.
ApplyEntry ==
    /\ apc = "applying"
    /\ \E e \in todo, env_ok \in BOOLEAN :
          LET r == ApplyOne(fs, e, env_ok) IN
          /\ fs' = r.fs
          /\ visited' = Append(visited, [entry |-> e, outcome |-> r.outcome,
                                         env_ok |-> env_ok])
          /\ todo' = Remaining(todo, e, r.outcome)
    /\ UNCHANGED <<scanVars, resolveVars, nameVars, pending_changes, current_song,
                   list_outdated, apc, last_request>>

\* Line 520: apply_changes returns.
ApplyReturn ==
    /\ apc = "applying"
    /\ todo = {}
    /\ apc' = "applied"
    /\ UNCHANGED <<scanVars, resolveVars, nameVars, fs, pending_changes,
                   current_song, list_outdated, todo, visited, last_request>>

\* The batches apply_changes is tried on: any action or none for each of
\* the three folders and for the parentless Song.
BatchSongs ==
    {ManagedSong(chars("songA"), TestSong, "1a2b3"),
     ManagedSong(CanonicalOfTestSong, TestSongCopy, "1a2b3"),
     ManagedSong(chars("B"), OtherSong, "00000"),
     ParentlessSong}
Batches ==
    {{Entry(sg, choice[sg]) : sg \in {x \in BatchSongs : choice[x] # "none"}} :
        choice \in [BatchSongs -> Actions \cup {"none"}]}

InitApply ==
    /\ IdleScan
    /\ song_list = <<>>
    /\ net_in = NoNet
    /\ res_out = NoResult
    /\ IdleName
    /\ fs = ManagedFs
    /\ pending_changes \in Batches
    /\ current_song = <<>>
    /\ list_outdated = FALSE
    /\ apc = "applying"
    /\ todo = pending_changes
    /\ visited = <<>>
    /\ last_request = <<>>

NextApply == ApplyEntry \/ ApplyReturn

SpecApply == InitApply /\ [][NextApply]_vars

\* ------------------------------------------------------------------------
\* ManagerApp::update (app.rs:92-299): the song list, the selected song and
\* the pending actions, one click a frame.
\* ------------------------------------------------------------------------
scanLocals ==
    <<root, id_cache_file, scan_no, spc, task_list, next_task, task_pending, wpc,
      level_id, exchanges, cached_id, cache_lock, cache_poisoned,
      shared_song_list, shared_invalid_path, local_invalid_path>>

\* What generate_song_list returns for the folders as they are: a Song for
\* each, with the catalog id or, when the resolution failed, the sentinel.
\* The order of the list plays no part here.
SeqOf(S) == CHOOSE q \in [1..Cardinality(S) -> S] : {q[i] : i \in 1..Cardinality(S)} = S
ScanResults(f) ==
    {SeqOf({ManagedSong(n, f[n], IF resolved[n] THEN f[n].catalog ELSE DEFAULT_ID) :
                n \in DOMAIN f}) :
        resolved \in [DOMAIN f -> BOOLEAN]}

\* The opened directory: the test song and its copy under the canonical name.
UiFs == (chars("songA") :> TestSong) @@ (CanonicalOfTestSong :> TestSongCopy)

InitUi ==
    /\ IdleScan
    /\ song_list = <<>>
    /\ net_in = NoNet
    /\ res_out = NoResult
    /\ IdleName
    /\ fs = UiFs
    /\ pending_changes = {}
    /\ current_song = <<>>
    /\ list_outdated = FALSE
    /\ apc = "idle"
    /\ todo = {}
    /\ visited = <<>>
    /\ last_request = <<>>

\* app.rs:104-107
Rescan ==
    /\ apc = "idle"
    /\ list_outdated
    /\ song_list' \in ScanResults(fs)
    /\ invalid_path' = {}
    /\ list_outdated' = FALSE
    /\ UNCHANGED <<scanLocals, resolveVars, nameVars, fs, pending_changes,
                   current_song, apc, todo, visited, last_request>>

\* app.rs:111-117: a folder is picked; the pending actions and the selected
\* song stay.
OpenFolder ==
    /\ apc = "idle"
    /\ ~list_outdated
    /\ list_outdated' = TRUE
    /\ UNCHANGED <<scanVars, resolveVars, nameVars, fs, pending_changes,
                   current_song, apc, todo, visited, last_request>>

\* app.rs:131-136
Select ==
    /\ apc = "idle"
    /\ ~list_outdated
    /\ \E i \in 1..Len(song_list) : current_song' = song_list[i]
    /\ UNCHANGED <<scanVars, resolveVars, nameVars, fs, pending_changes,
                   list_outdated, apc, todo, visited, last_request>>

\* app.rs:290-299
Request(action) ==
    /\ apc = "idle"
    /\ ~list_outdated
    /\ current_song # <<>>
    /\ pending_changes' = MapInsert(pending_changes, current_song, action)
    /\ last_request' = Entry(current_song, action)
    /\ UNCHANGED <<scanVars, resolveVars, nameVars, fs, current_song,
                   list_outdated, apc, todo, visited>>

\* app.rs:267-278
Withdraw ==
    /\ apc = "idle"
    /\ ~list_outdated
    /\ \E e \in pending_changes : pending_changes' = MapRemove(pending_changes, e.song)
    /\ last_request' = <<>>
    /\ UNCHANGED <<scanVars, resolveVars, nameVars, fs, current_song,
                   list_outdated, apc, todo, visited>>

\* app.rs:231-233
ResetChanges ==
    /\ apc = "idle"
    /\ ~list_outdated
    /\ pending_changes' = {}
    /\ last_request' = <<>>
    /\ UNCHANGED <<scanVars, resolveVars, nameVars, fs, current_song,
                   list_outdated, apc, todo, visited>>

\* app.rs:223-225: the commit button with a map that is not empty calls
\* apply_changes.
Commit ==
    /\ apc = "idle"
    /\ ~list_outdated
    /\ pending_changes # {}
    /\ apc' = "applying"
    /\ todo' = pending_changes
    /\ visited' = <<>>
    /\ last_request' = <<>>
    /\ UNCHANGED <<scanVars, resolveVars, nameVars, fs, pending_changes,
                   current_song, list_outdated>>

\* app.rs:226-228
CommitEnd ==
    /\ apc = "applied"
    /\ pending_changes' = {}
    /\ current_song' = <<>>
    /\ list_outdated' = TRUE
    /\ apc' = "idle"
    /\ visited' = <<>>
    /\ UNCHANGED <<scanVars, resolveVars, nameVars, fs, todo, last_request>>

NextUi ==
    \/ Rescan
    \/ OpenFolder
    \/ Select
    \/ \E action \in Actions : Request(action)
    \/ Withdraw
    \/ ResetChanges
    \/ Commit
    \/ ApplyEntry
    \/ ApplyReturn
    \/ CommitEnd

SpecUi == InitUi /\ [][NextUi]_vars

\* ------------------------------------------------------------------------
\* Properties.
\* ------------------------------------------------------------------------
Range(s) == {s[i] : i \in 1..Len(s)}
IsDir(p) == root.entries[p].kind = "dir"
\* generate_song_list has returned a pair for a root it could list.
Returned_Ok == spc = "idle" /\ scan_no > 0 /\ root.readable
SongPaths(list) == {list[i].song_folder_path : i \in 1..Len(list)}
\* The entries a load of id.cache would give.
Persisted(file) == IF file.exists /\ file.valid THEN file.map ELSE <<>>
SubMap(m1, m2) == \A h \in DOMAIN m1 : h \in DOMAIN m2 /\ m2[h] = m1[h]

\* C1: when generate_song_list returns for a root it could list, every
\* directory of the listing had its unit of work run and joined: its path
\* is in exactly one of the returned song list and the returned rejected
\* set.
C1_EveryDirectoryAccounted ==
    Returned_Ok =>
        \A p \in Paths :
            IsDir(p) => ((p \in SongPaths(song_list)) # (p \in invalid_path))

\* C2: when generate_song_list returns, every directory whose folder has
\* no info.dat, an unparsable info.dat, a missing or mistyped required
\* field at any depth, an unknown characteristic or an unreadable beatmap
\* file is in the rejected set and not in the song list; the folder with
\* tempo 120 beside a folder without info.dat gives one song with tempo
\* 120 and one rejected path.
C2_Malformed(f) ==
    \/ f.info # "text"
    \/ ~f.json_ok
    \/ \E k \in {"songName", "songSubName", "songAuthorName", "levelAuthorName",
                 "songFilename", "coverImageFilename"} : f.infodat[k].t # "str"
    \/ f.infodat.beatsPerMinute.t # "num"
    \/ ~f.infodat.difficultyBeatmapSets.is_array
    \/ \E i \in 1..Len(f.infodat.difficultyBeatmapSets.items) :
          LET set == f.infodat.difficultyBeatmapSets.items[i] IN
          \/ set.beatmapCharacteristicName.t # "str"
          \/ set.beatmapCharacteristicName.s \notin KnownCharacteristics
          \/ ~set.difficultyBeatmaps.is_array
          \/ \E j \in 1..Len(set.difficultyBeatmaps.items) :
                LET map == set.difficultyBeatmaps.items[j] IN
                \/ map.difficulty.t # "str"
                \/ map.difficultyRank.t # "num"
                \/ map.beatmapFilename.t # "str"
                \/ map.beatmapFilename.s \notin DOMAIN f.files
C2_MalformedRejected ==
    Returned_Ok =>
        /\ \A p \in Paths :
              (IsDir(p) /\ C2_Malformed(FolderAt(p))) =>
                  (p \in invalid_path /\ p \notin SongPaths(song_list))
        /\ root = EndToEndRoot =>
              /\ Len(song_list) = 1
              /\ song_list[1].beats_per_minute = 120
              /\ Cardinality(invalid_path) = 1

\* C3: the number of threads spawned and not yet joined never exceeds
\* CONCURRENT_THREADS_MAX.
InFlight == Len(task_pending)
C3_InFlightBounded == InFlight <= CONCURRENT_THREADS_MAX
C3_Witness == InFlight = CONCURRENT_THREADS_MAX /\ next_task <= Len(task_list)

\* C4: a unit is spawned only below the high-water mark, and the first
\* spawn after the pool was full (the task before it found the pool full)
\* happens with exactly CONCURRENT_THREADS_MIN threads in flight; the drain
\* ends exactly at the low-water mark.
SpawnStep == Len(task_pending') = Len(task_pending) + 1
AfterFullPool ==
    next_task > 1 /\ wpc[task_list[next_task - 1]] = "dropped"
C4_Hysteresis ==
    [][/\ SpawnStep =>
            /\ InFlight < CONCURRENT_THREADS_MAX
            /\ AfterFullPool => InFlight = CONCURRENT_THREADS_MIN
       /\ (spc = "drain" /\ spc' = "dispatch") =>
            Len(task_pending') = CONCURRENT_THREADS_MIN
       /\ (spc = "drain" /\ spc' = "drain") =>
            Len(task_pending') > CONCURRENT_THREADS_MIN]_vars
C4_Witness ==
    \E i \in 2..Len(task_list) :
        /\ wpc[task_list[i - 1]] = "dropped"
        /\ wpc[task_list[i]] = "spawned"
        /\ InFlight = CONCURRENT_THREADS_MIN + 1

\* C5: a lookup of a hash that is a key of the map returns the cached id,
\* leaves the map as it was and makes no resolver exchange, then or later
\* in that unit of work.
LookupStep(p) == wpc[p] = "spawned" /\ wpc'[p] \in {"built", "resolving"}
C5_HitWithoutExchange ==
    [][\A p \in Paths :
          /\ (LookupStep(p) /\ HashOf(p) \in DOMAIN cached_id) =>
                /\ wpc'[p] = "built"
                /\ level_id'[p] = cached_id[HashOf(p)]
                /\ cached_id' = cached_id
                /\ exchanges'[p] = exchanges[p]
          /\ wpc[p] = "built" => exchanges'[p] = exchanges[p]]_vars
C5_Witness ==
    \E p \in Paths :
        /\ wpc[p] = "built"
        /\ exchanges[p] = 0
        /\ HashOf(p) \in DOMAIN cached_id
        /\ level_id[p] = cached_id[HashOf(p)]

\* C6: a resolution that returns the sentinel leaves the map as it was, the
\* sentinel is never a value of the map or of id.cache, and a worker never
\* gets the sentinel from the cache: whenever its id is the sentinel it has
\* made a resolver exchange in this scan.  (Another worker with the same
\* hash may still resolve it in the same scan; the property is about the
\* resolution that returned the sentinel.)
ResolveStep(p) == wpc[p] = "resolving" /\ wpc'[p] = "built"
C6_SentinelNotCached ==
    /\ [](/\ \A h \in DOMAIN cached_id : cached_id[h] # DEFAULT_ID
          /\ \A h \in DOMAIN id_cache_file.map : id_cache_file.map[h] # DEFAULT_ID
          /\ \A p \in Paths :
                (wpc[p] = "built" /\ level_id[p] = DEFAULT_ID) => exchanges[p] = 1)
    /\ [][\A p \in Paths :
             (ResolveStep(p) /\ level_id'[p] = DEFAULT_ID) => cached_id' = cached_id]_vars
\* The second scan, after a first one that returned the song with the
\* sentinel and saved the cache, resolves the hash again.
C6_Witness ==
    \E p \in Paths :
        /\ scan_no = 2
        /\ wpc[p] = "built"
        /\ level_id[p] = DEFAULT_ID
        /\ exchanges[p] = 1
        /\ id_cache_file.valid
        /\ \E i \in 1..Len(song_list) :
              /\ song_list[i].song_folder_path = p
              /\ song_list[i].level_id = DEFAULT_ID

InScan == spc # "idle"
C9_ScanNeverAborts == spc # "panicked"

\* C10: get_id_by_hash returns an id other than the sentinel only when no
\* step of the exchange failed and a Content-Length header was read.
C10_SentinelOnAnyFailure ==
    (res_out # NoResult /\ ~res_out.panicked /\ res_out.id # DEFAULT_ID) =>
        (res_out.failed = <<>> /\ res_out.cl_seen)

\* C11: the hash of every song, of this scan or the one before, is the
\* hash of the info.dat bytes followed by the bytes of the beatmap files in
\* declared order, outer then inner, whatever the cache and the other
\* workers did; so songs of folders with the same bytes have the same
\* hash, and the folder whose two beatmap files are exchanged has another
\* byte stream and another hash.
AllSongs == Range(song_list) \cup Range(shared_song_list)
C11_DeclaredFiles(f) ==
    LET sets == f.infodat.difficultyBeatmapSets.items
        n(i) == Len(sets[i].difficultyBeatmaps.items)
        Pairs == {<<i, j>> : i \in 1..Len(sets), j \in 1..3} IN
    {pr \in Pairs : pr[2] <= n(pr[1])}
C11_Before(a, b) == a[1] < b[1] \/ (a[1] = b[1] /\ a[2] < b[2])
C11_Stream(f) ==
    LET sets == f.infodat.difficultyBeatmapSets.items
        D == C11_DeclaredFiles(f)
        rank(pr) == Cardinality({q \in D : C11_Before(q, pr)}) + 1
        at(k) == CHOOSE pr \in D : rank(pr) = k IN
    <<f.bytes>> \o
    [k \in 1..Cardinality(D) |->
        f.files[sets[at(k)[1]].difficultyBeatmaps.items[at(k)[2]].beatmapFilename.s]]
C12_BytesLeq(a, b) ==
    \/ a = b
    \/ \E k \in 1..Len(b) :
          /\ Len(a) >= k - 1
          /\ \A i \in 1..(k - 1) : a[i] = b[i]
          /\ (Len(a) = k - 1 \/ a[k] < b[k])
C12_Ascending(list) ==
    \A i, j \in 1..Len(list) :
        i < j => C12_BytesLeq(as_bytes(list[i].song_name), as_bytes(list[j].song_name))
ReturnStep == spc = "join" /\ spc' = "idle"
C12_SortedPermutation ==
    [][ReturnStep =>
          /\ C12_Ascending(song_list')
          /\ Len(song_list') = Len(shared_song_list)
          /\ Range(song_list') = Range(shared_song_list)
          /\ root = SortRoot =>
                [i \in 1..Len(song_list') |-> song_list'[i].song_name]
                    = <<"Beta", "Zeta", "alpha">>]_vars
\* The three songs were pushed in an order that is not the sorted one.
C12_Witness ==
    /\ root = SortRoot
    /\ spc = "join"
    /\ task_pending = <<>>
    /\ Len(shared_song_list) = 3
    /\ shared_song_list[1].song_name = "alpha"
    /\ shared_song_list[3].song_name = "Beta"

\* C13: when the listing of the root fails, generate_song_list returns the
\* empty list and the empty set at once: no task is built, no worker is
\* spawned, no resolver exchange is made and id.cache is not touched.
C13_UnlistableRootReturnsEmpty ==
    ~root.readable =>
        /\ spc = "idle"
        /\ song_list = <<>>
        /\ invalid_path = {}
        /\ task_list = <<>>
        /\ task_pending = <<>>
        /\ \A p \in Paths : wpc[p] = "none" /\ exchanges[p] = 0
        /\ id_cache_file = NoFile
C13_Witness == ~root.readable /\ root.entries # <<>> /\ scan_no = 2 /\ spc = "idle"

\* C14 as claimed: every scan of a root that could be listed returns having
\* written the whole in-memory map to id.cache.
C14_EveryScanWritesTheMap ==
    [][ReturnStep => id_cache_file' = MapFile(cached_id)]_vars
\* C14 amended: id.cache changes only in the one step that ends the scan,
\* after every spawned worker has been joined, and that step leaves the
\* whole in-memory map in the file, or the file as it was (File::create
\* failed), or a truncated file (the write failed).
C14_SavedOnceAfterJoins ==
    [][/\ id_cache_file' # id_cache_file =>
            /\ spc = "join" /\ spc' # "join"
            /\ task_pending = <<>>
            /\ \A p \in Paths : wpc[p] \in {"none", "dropped", "done"}
       /\ ReturnStep =>
            \/ id_cache_file' = MapFile(cached_id)
            \/ id_cache_file' = id_cache_file
            \/ id_cache_file' = CorruptFile]_vars
\* A scan that resolved no id has returned a song and written the (empty)
\* map.
C14_Witness ==
    /\ Returned_Ok
    /\ id_cache_file = MapFile(<<>>)
    /\ \E i \in 1..Len(song_list) : song_list[i].level_id = DEFAULT_ID

\* C19: no worker holds the lock of the identifier cache while its
\* resolver exchange is in progress.
ExchangeInProgress(p) == wpc[p] \in {"resolving", "fallback"}
C19_NoLockDuringExchange ==
    \A p \in Paths : ExchangeInProgress(p) => cache_lock # p

\* C20: a worker holds the lock of the identifier cache only from its
\* lookup to the end of its resolution, and has released it when it takes
\* the lock of the song list or of the rejected set, of which it takes
\* exactly one.
PushStep(p) == wpc[p] \in {"spawned", "built"} /\ wpc'[p] = "done"
C20_OneLockAtATime ==
    /\ [](\A p \in Paths : cache_lock = p => ExchangeInProgress(p))
    /\ [][\A p \in Paths :
             PushStep(p) =>
                 /\ cache_lock # p
                 /\ cache_lock' # p
                 /\ (shared_song_list' # shared_song_list)
                        # (shared_invalid_path' # shared_invalid_path)]_vars
\* A worker that held the cache lock for its resolution has pushed its
\* song while another worker holds the cache lock.
C20_Witness ==
    \E p, q \in Paths :
        /\ p # q
        /\ wpc[p] = "done"
        /\ exchanges[p] = 1
        /\ p \in SongPaths(shared_song_list)
        /\ cache_lock = q

\* C17: the canonical name is "{level_id} ({ascii name} - {ascii level
\* author})" with every maximal run of forbidden characters replaced by
\* one underscore; it holds no forbidden character and is its own
\* sanitised form; id 1a2b3, name "Test: Song?", author "Au/Th" give
\* "1a2b3 (Test_ Song_ - Au_Th)".
C17_Forbidden ==
    {"~", "#", "\"", "%", "&", "*", ":", "<", ">", "?", "/", "\\", "{", "|", "}"}
C17_Ascii(str) ==
    CASE str = "etude:AE in Unicode" -> <<"e", "t", "u", "d", "e", ":", "A", "E">>
      [] OTHER -> chars(str)
C17_RunsReplaced(w) ==
    LET mark(i) == IF w[i] \notin C17_Forbidden THEN w[i]
                   ELSE IF i = 1 \/ w[i - 1] \notin C17_Forbidden THEN "_"
                   ELSE "dropped"
    IN SelectSeq([i \in 1..Len(w) |-> mark(i)], LAMBDA c : c # "dropped")
C17_Expected(song) ==
    C17_RunsReplaced(chars(song.level_id) \o <<" ", "(">> \o C17_Ascii(song.song_name)
                        \o <<" ", "-", " ">> \o C17_Ascii(song.level_author_name)
                        \o <<")">>)
C17_CanonicalName ==
    name_out # <<>> =>
        /\ name_out = C17_Expected(name_in)
        /\ \A i \in 1..Len(name_out) : name_out[i] \notin C17_Forbidden
        /\ C17_RunsReplaced(name_out) = name_out
        /\ (name_in = [level_id |-> "1a2b3", song_name |-> "Test: Song?",
                       level_author_name |-> "Au/Th"]) =>
              name_out = <<"1", "a", "2", "b", "3", " ", "(", "T", "e", "s", "t", "_",
                           " ", "S", "o", "n", "g", "_", " ", "-", " ", "A", "u", "_",
                           "T", "h", ")">>
\* A name with a run of two forbidden characters has been made canonical.
C17_Witness ==
    /\ name_in.song_name = "a?:b"
    /\ name_in.level_author_name = "{|}"
    /\ name_out # <<>>

\* C15: when apply_changes returns, every entry of the batch has been
\* visited exactly once, whatever became of the others: a Delete or a
\* Rename of a folder with a parent was attempted, a Rename of a path
\* without parent was skipped; a step that fails or skips leaves the
\* folders as the steps before left them.
VisitedEntries == {visited[i].entry : i \in 1..Len(visited)}
C15_EveryEntryOnce ==
    /\ [](apc = "applied" =>
            /\ VisitedEntries = pending_changes
            /\ Len(visited) = Cardinality(pending_changes)
            /\ \A i \in 1..Len(visited) :
                  visited[i].outcome = "skipped" <=>
                      /\ visited[i].entry.action = "Rename"
                      /\ visited[i].entry.song.song_folder_path = <<>>)
    /\ [][(Len(visited') = Len(visited) + 1
            /\ visited'[Len(visited')].outcome # "ok") => fs' = fs]_vars
\* A batch of three: the first entry failed, a later one was skipped and
\* one after a failure succeeded.
C15_Witness ==
    /\ apc = "applied"
    /\ Len(visited) >= 3
    /\ visited[1].outcome = "failed"
    /\ \E i \in 2..Len(visited) : visited[i].outcome = "skipped"
    /\ \E i \in 2..Len(visited) : visited[i].outcome = "ok"

\* C16 as claimed: after a batch whose mutations all succeeded, the path of
\* every Delete entry is gone, the path of every Rename entry is gone and
\* its canonical name exists, and every other folder is as it was.
AllSucceeded ==
    /\ apc = "applied"
    /\ pending_changes # {}
    /\ \A i \in 1..Len(visited) : visited[i].outcome = "ok"
PathOf(e) == e.song.song_folder_path
RenameTargets ==
    {get_canonical_name(e.song) : e \in {x \in pending_changes : x.action = "Rename"}}
Untouched ==
    /\ \A n \in DOMAIN ManagedFs :
          (n \notin {PathOf(e) : e \in pending_changes} /\ n \notin RenameTargets) =>
              (n \in DOMAIN fs /\ fs[n] = ManagedFs[n])
    /\ \A n \in DOMAIN fs : n \in DOMAIN ManagedFs \/ n \in RenameTargets
C16_PathsGoneAndCanonical ==
    AllSucceeded =>
        /\ \A e \in pending_changes :
              /\ PathOf(e) \notin DOMAIN fs
              /\ e.action = "Rename" => get_canonical_name(e.song) \in DOMAIN fs
        /\ Untouched
\* C16 amended: after such a batch the folder each Delete entry named is
\* nowhere in the directory, the folder each Rename entry named is under the
\* canonical name, and the old name of an entry is free unless it is the
\* canonical name of a Rename entry of the batch; every other folder is as
\* it was.
C16_FoldersGoneAndCanonical ==
    AllSucceeded =>
        /\ \A e \in pending_changes :
              /\ e.action = "Delete" =>
                    \A n \in DOMAIN fs : fs[n] # ManagedFs[PathOf(e)]
              /\ e.action = "Rename" =>
                    /\ get_canonical_name(e.song) \in DOMAIN fs
                    /\ fs[get_canonical_name(e.song)] = ManagedFs[PathOf(e)]
                    /\ \A n \in DOMAIN fs :
                          fs[n] = ManagedFs[PathOf(e)] => n = get_canonical_name(e.song)
              /\ PathOf(e) \in DOMAIN fs => PathOf(e) \in RenameTargets
        /\ Untouched
\* The copy under the canonical name was deleted and the other copy renamed
\* to it, beside a folder that is in no entry.
C16_Witness ==
    /\ AllSucceeded
    /\ Cardinality(pending_changes) = 2
    /\ \E e \in pending_changes : e.action = "Delete" /\ PathOf(e) = CanonicalOfTestSong
    /\ \E e \in pending_changes : e.action = "Rename" /\ PathOf(e) = chars("songA")
    /\ fs[CanonicalOfTestSong] = TestSong

\* C18: the pending-action map holds at most one action for a folder path;
\* the last request for a path is the action the map holds for it, whatever
\* the other fields of the Song that was clicked; a commit runs on a map
\* that is not empty and leaves it empty.
C18_OneActionPerPath ==
    /\ [](/\ \A e1, e2 \in pending_changes : PathOf(e1) = PathOf(e2) => e1 = e2
          /\ last_request # <<>> =>
                \E e \in pending_changes :
                    /\ PathOf(e) = PathOf(last_request)
                    /\ e.action = last_request.action
          /\ apc # "idle" => pending_changes # {})
    /\ [][(apc = "applied" /\ apc' = "idle") => pending_changes' = {}]_vars
\* A request for a path that had an action already, made on a Song whose id
\* is not the one of the Song first clicked, has replaced the action.
C18_Witness ==
    /\ last_request # <<>>
    /\ Cardinality(pending_changes) = 2
    /\ \E e \in pending_changes :
          /\ PathOf(e) = PathOf(last_request)
          /\ e.song # last_request.song
          /\ e.action = last_request.action

\* C21: a unit of work reaches the identifier cache and the resolver only
\* for a folder whose info.dat has every required field, well-typed; a
\* folder of the rejected set has made no resolver exchange.
C21_ResolvesOnlyValidFolders ==
    /\ \A p \in shared_invalid_path : exchanges[p] = 0
    /\ \A p \in Paths :
          wpc[p] \in {"resolving", "fallback", "built"} =>
              FieldsOk(FolderAt(p).infodat)

\* C22: a worker that missed in the cache makes one resolver exchange and
\* no more, whatever the result; when the result is not the sentinel, the
\* step that ends its lookup leaves hash -> id in the map, and the Song the
\* worker pushes carries the id of the map entry.
C22_OneExchangePerMiss ==
    /\ [](/\ \A p \in Paths : exchanges[p] <= 1
          /\ ~cache_poisoned =>
                /\ \A p \in Paths :
                      (wpc[p] = "built" /\ exchanges[p] = 1
                          /\ level_id[p] # DEFAULT_ID) =>
                          /\ HashOf(p) \in DOMAIN cached_id
                          /\ cached_id[HashOf(p)] = level_id[p]
                /\ \A i \in 1..Len(shared_song_list) :
                      LET song == shared_song_list[i] IN
                      (exchanges[song.song_folder_path] = 1
                          /\ song.level_id # DEFAULT_ID) =>
                          /\ song.level_hash \in DOMAIN cached_id
                          /\ cached_id[song.level_hash] = song.level_id)
    /\ [][\A p \in Paths :
             /\ ResolveStep(p) =>
                   /\ exchanges'[p] = exchanges[p] + 1
                   /\ level_id'[p] # DEFAULT_ID =>
                         /\ HashOf(p) \in DOMAIN cached_id'
                         /\ cached_id'[HashOf(p)] = level_id'[p]
             /\ (wpc[p] = "built" /\ wpc'[p] = "done"
                    /\ shared_song_list' # shared_song_list) =>
                   shared_song_list'[Len(shared_song_list')].level_id = level_id[p]]_vars
\* A worker that missed has pushed its Song, with the id the map holds for
\* its hash; another that missed got the sentinel and left the map alone.
C22_Witness ==
    /\ ~cache_poisoned
    /\ \E i \in 1..Len(shared_song_list) :
          LET song == shared_song_list[i] IN
          /\ exchanges[song.song_folder_path] = 1
          /\ song.level_id # DEFAULT_ID
          /\ cached_id[song.level_hash] = song.level_id
    /\ \E p \in Paths :
          /\ wpc[p] = "built"
          /\ exchanges[p] = 1
          /\ level_id[p] = DEFAULT_ID
          /\ HashOf(p) \notin DOMAIN cached_id

\* C23: the worker that finds the cache lock poisoned makes one resolver
\* exchange, takes the id it returns, leaves the map as it was and goes on
\* to record its folder.
FallbackStep(p) == wpc[p] = "fallback" /\ wpc'[p] # "fallback"
C23_FallbackCompletes ==
    [][\A p \in Paths :
          FallbackStep(p) =>
              /\ wpc'[p] = "built"
              /\ exchanges'[p] = exchanges[p] + 1
              /\ cached_id' = cached_id]_vars

\* C24: in an exchange the body is read only when the header loop ended
\* at a blank line, and then as the number of bytes the Content-Length
\* header declared: no byte of the body is read before the blank line.
C24_BodyAfterBlankLine ==
    (res_out # NoResult /\ res_out.body_read > 0) =>
        /\ res_out.blank_seen
        /\ res_out.cl_seen
        /\ res_out.body_read = res_out.bytes_to_read

\* C25: in a scan whose cache lock is not poisoned, no two workers with
\* the same hash both get an id other than the sentinel from the resolver:
\* a resolution that returns such an id starts with the hash absent from
\* the map and ends with it present, the map keeps its entries for the
\* rest of the scan, and a lookup that finds the hash makes no exchange.
Succeeded(p) ==
    /\ exchanges[p] = 1
    /\ \/ wpc[p] = "built" /\ level_id[p] # DEFAULT_ID
       \/ \E i \in 1..Len(shared_song_list) :
             /\ shared_song_list[i].song_folder_path = p
             /\ shared_song_list[i].level_id # DEFAULT_ID
C25_OneSuccessPerHash ==
    /\ [](~cache_poisoned =>
             \A p, q \in Paths :
                 (p # q /\ Succeeded(p) /\ Succeeded(q)) => HashOf(p) # HashOf(q))
    /\ [][~cache_poisoned' =>
             /\ \A p \in Paths :
                   /\ (ResolveStep(p) /\ level_id'[p] # DEFAULT_ID) =>
                         /\ HashOf(p) \notin DOMAIN cached_id
                         /\ HashOf(p) \in DOMAIN cached_id'
                   /\ (wpc[p] = "spawned" /\ wpc'[p] = "resolving") =>
                         HashOf(p) \notin DOMAIN cached_id
             /\ (spc # "idle" /\ spc' # "idle") =>
                   DOMAIN cached_id \subseteq DOMAIN cached_id']_vars
\* Two folders with the same hash: one worker resolved it, the other got
\* the id from the map without an exchange.
C25_Witness ==
    /\ ~cache_poisoned
    /\ \E p, q \in Paths :
          /\ p # q
          /\ HashOf(p) = HashOf(q)
          /\ Succeeded(p)
          /\ exchanges[q] = 0
          /\ wpc[q] = "built"
          /\ level_id[q] = cached_id[HashOf(p)]

\* C26 as claimed: the folders after apply_changes are the same for every
\* order of the entries: the ones a fixed order of the same entries, under
\* the same refusals of the system, leaves.
VisitedSet == {visited[i] : i \in 1..Len(visited)}
RECURSIVE ApplyAll(_, _)
ApplyAll(f, steps) ==
    IF steps = <<>> THEN f
    ELSE ApplyAll(ApplyOne(f, Head(steps).entry, Head(steps).env_ok).fs, Tail(steps))
C26_SameForEveryOrder ==
    apc = "applied" => fs = ApplyAll(ManagedFs, SeqOf(VisitedSet))
\* C26 amended: the folders after apply_changes are the same for every
\* order of the entries when no Rename's canonical name is the folder name
\* of another entry or the canonical name of another Rename: each entry the
\* system does not refuse then has its own effect, whatever the others did.
Collides(batch) ==
    \E e \in batch :
        /\ e.action = "Rename"
        /\ \E x \in batch \ {e} :
              \/ PathOf(x) = get_canonical_name(e.song)
              \/ x.action = "Rename"
                    /\ get_canonical_name(x.song) = get_canonical_name(e.song)
Effective(v) ==
    /\ v.env_ok
    /\ PathOf(v.entry) \in DOMAIN ManagedFs
    /\ v.entry.action = "Rename" =>
          get_canonical_name(v.entry.song) \notin DOMAIN ManagedFs
Moved == {v \in VisitedSet : v.entry.action = "Rename" /\ Effective(v)}
Gone == {PathOf(v.entry) : v \in {x \in VisitedSet : Effective(x)}}
Expected ==
    [n \in (DOMAIN ManagedFs \ Gone) \cup {get_canonical_name(v.entry.song) : v \in Moved} |->
        IF n \in DOMAIN ManagedFs \ Gone THEN ManagedFs[n]
        ELSE ManagedFs[PathOf((CHOOSE v \in Moved :
                                  get_canonical_name(v.entry.song) = n).entry)]]
C26_SameForEveryOrderWithoutCollision ==
    (apc = "applied" /\ ~Collides(pending_changes)) => fs = Expected
\* A batch without collision of which a Delete and a Rename took effect,
\* visited in another order than the fixed one.
C26_Witness ==
    /\ apc = "applied"
    /\ ~Collides(pending_changes)
    /\ visited # SeqOf(VisitedSet)
    /\ Cardinality(Moved) >= 1
    /\ Cardinality(Gone) >= 2
    /\ \E v \in VisitedSet : ~v.env_ok

\* C27: under fair scheduling a scan that has started ends: generate_song_list
\* returns or panics, and it returns when no worker panics.  In no
\* reachable state of a scan are the scanner and the workers all waiting.
Scanning == spc \in {"dispatch", "drain", "join"}
C27_ScanTerminates ==
    /\ Scanning ~> (spc \in {"idle", "panicked"})
    /\ [](spc = "panicked" => \E p \in Paths : wpc[p] = "panicked")
\* The scanner waits at a join for a worker that waits for the cache lock,
\* which another worker holds during its exchange.
C27_Witness ==
    /\ spc = "join"
    /\ task_pending # <<>>
    /\ wpc[Head(task_pending)] = "spawned"
    /\ ParseFolder(FolderAt(Head(task_pending))).ok
    /\ cache_lock \notin {0, Head(task_pending)}
====
